---- MODULE Spec2Model ----
(***************************************************************************)
(* Rockepy: the multi-phase trajectory propagators (orbital and            *)
(* suborbital), the orbital/suborbital thrust schedules and the vehicle's  *)
(* burnout-time table.                                                     *)
(*                                                                         *)
(* Units.  Time is counted in ticks of 1 ms, so that round(x, 2) is a      *)
(* rounding to a multiple of CentiSecond ticks.  Position is the altitude  *)
(* |r| - body_radius in metres.  Mass is in kg, mass flow in kg per tick.  *)
(*                                                                         *)
(* solve_ivp is an external integrator.  One step of it advances the time  *)
(* by one tick, evaluates the state derivative at the step's start (which  *)
(* calls the thrust model and so mutates the vehicle's flags), and moves   *)
(* the vehicle to an altitude / vertical velocity drawn from a small set   *)
(* of representatives around every threshold the code tests: the           *)
(* trajectory is whatever the dynamics produce, the mass alone is          *)
(* integrated.  RK45 also evaluates the derivative at the end of a step    *)
(* (reused as the next step's first evaluation), so the last step of an    *)
(* integration is followed by one more evaluation at its end time.         *)
(*                                                                         *)
(* Besides the propagators (Spec), the module holds the mass budget with   *)
(* its bisection (SpecMass), the vehicle constructors (SpecConstruct) and  *)
(* the drag and lift perturbations (SpecAero) and the atmospheric density  *)
(* (SpecAtmosphere); each has its own variable and leaves the others       *)
(* untouched.                                                              *)
(***************************************************************************)
EXTENDS Integers, Sequences, FiniteSets, TLC

VARIABLES
    flight,            \* "orbital" | "suborbital": which Propagator runs
    rocket,            \* the vehicle object (inputs, schedule, mutable flags)
    pc,                \* "loop" | "solve" | "record" | "done" | "raised"
    i,                 \* propagate(): the for-loop's phase index
    U0,                \* propagate(): initial state of the phase
    t_start,           \* orbital propagate(): t_start
    t_starts,          \* suborbital propagate(): t_starts
    t_end,             \* propagate(): t_end
    t_eval,            \* propagate(): t_eval of the phase
    t,                 \* solve_ivp: current time of the integrator
    Y,                 \* solve_ivp: current state of the integrator
    sol,               \* solve_ivp: the result being built (t, y, status)
    combined_Y,        \* propagate(): combined_Y (mass component of each row)
    combined_t_eval,   \* propagate(): combined_t_eval
    section_indices,   \* propagate(): section_indices
    start_index,       \* propagate(): start_index
    apoapsis,          \* suborbital Propagator.apoapsis (radius, m)
    printed,           \* what print() has written, in order (stage number or parachute)
    branch,            \* history: thrust-direction branch of the last calculate
    pitch_over_count,  \* history: evaluations that took the pitch-over branch (capped)
    burned,            \* history: propellant burnt during each phase
    event_log,         \* history: terminal events fired, <<phase, event>>
    mass_components,   \* the MassComponents object of get_mass_components()
    solver,            \* bisection_solver: its locals (low, high, mid, iter)
    vehicle,           \* OrbitalRocket(...): the arguments and the outcome of the call
    perturbation,      \* DragPerturbation / Lift: the arguments and result of calculate
    density            \* atmospheric_density: the altitude and what the call returns

\* The state of a propagate() run.
propagation_vars ==
    <<flight, rocket, pc, i, U0, t_start, t_starts, t_end, t_eval, t, Y, sol,
      combined_Y, combined_t_eval, section_indices, start_index, apoapsis,
      printed, branch, pitch_over_count, burned, event_log>>

\* The objects of the vehicle-construction and perturbation functions.
function_vars == <<mass_components, solver, vehicle, perturbation, density>>

vars == <<propagation_vars, function_vars>>

(***************************************************************************)
(* Bounds and input sets                                                   *)
(***************************************************************************)
MaxStages == 3
MaxPitchOverCount == 2

\* Stage k of the vehicle: a solved mass budget with its derived thrust and
\* mass flow; upper stages are lighter and burn for a shorter time.
StageSpec(k) ==
    [propellant_mass |-> (6 - k) * (5 - k),
     mass_flow_rate  |-> 5 - k,
     empty_mass      |-> 4 - k,
     stage_thrust    |-> 20 * (5 - k)]

PayloadMasses == {3}
CoastDurations == {0, 2}
FinalCoasts == {5}
TimeSteps == {3, 10}

\* Altitudes (m) around every threshold the orbital code tests: the surface,
\* the end of the vertical ascent, the end of the pitch-over, and above it.
OrbitalAltitudes == {0, 110, 500, 501}

\* Altitudes (m) and vertical velocities (sign) of the suborbital flight: the
\* surface, below the 0.3 km floor, above it, and high enough for 10 % of the
\* apoapsis altitude to exceed the floor.
SuborbitalAltitudes == {0, 200, 400, 4000}
VerticalVelocities == {-1, 1}

(***************************************************************************)
(* Program constants                                                       *)
(***************************************************************************)
body_radius == 6371000
CentiSecond == 10
VerticalAscentAltitude == 110
PitchOverAltitude == 500
min_altitude_trigger == 300
\* 1 / percentage_of_max_height
InversePercentageOfMaxHeight == 10

(***************************************************************************)
(* numpy / Python helpers                                                  *)
(***************************************************************************)
Max(a, b) == IF a >= b THEN a ELSE b

Abs(a) == IF a >= 0 THEN a ELSE -a

Last(s) == s[Len(s)]

\* The length of a grid that also holds its end point stop (np.linspace-like).
ArangeLenInclusive(start, stop, step) ==
    IF stop - start < 0 THEN 0 ELSE (stop - start) \div step + 1

\* ceil(a / b) for b > 0, 0 when a <= 0: the length of np.arange.
ArangeLen(start, stop, step) ==
    IF stop - start <= 0 THEN 0 ELSE (stop - start + step - 1) \div step

\* np.arange(start, stop, step): start, start+step, ... strictly below stop.
arange(start, stop, step) ==
    [k \in 1..ArangeLen(start, stop, step) |-> start + (k - 1) * step]

\* round(x, 2) of a time x >= 0: the nearest multiple of 0.01 s.  A value
\* halfway between two multiples is rounded by its binary representation,
\* which may lie on either side: both outcomes are possible.
round2(x) ==
    LET lo == (x \div CentiSecond) * CentiSecond
        r  == x % CentiSecond
    IN  IF 2 * r < CentiSecond THEN {lo}
        ELSE IF 2 * r > CentiSecond THEN {lo + CentiSecond}
        ELSE {lo, lo + CentiSecond}

\* s[:-n] for n > 0.
DropLast(s, n) == SubSeq(s, 1, Max(0, Len(s) - n))

\* combined_t_eval_i[:-readjustment_error] if readjustment_error > 0 else combined_t_eval_i
Readjust(combined_t_eval_i, readjustment_error) ==
    IF readjustment_error > 0 THEN DropLast(combined_t_eval_i, readjustment_error)
    ELSE combined_t_eval_i

(***************************************************************************)
(* solve_ivp: sampling on t_eval and terminal events with direction = -1   *)
(***************************************************************************)
\* A point of the phase's t_eval grid.
InGrid(tt, start, stop, step) ==
    /\ start <= tt
    /\ tt < stop
    /\ (tt - start) % step = 0

\* An event without direction: active when its function changes sign either way.
AnyDirection(g_old, g_new) ==
    (g_old >= 0 /\ g_new <= 0) \/ (g_old <= 0 /\ g_new >= 0)

\* An event with direction -1 is active over a step when its function goes
\* from >= 0 to <= 0.
Descending(g_old, g_new) == g_old >= 0 /\ g_new <= 0

ground_impact_event(YY) == YY.alt

\* The result of solve_ivp at the start of the integration: the sample at
\* the start time when t_eval holds it.
SolStart(start, stop, step, YY) ==
    IF InGrid(start, start, stop, step)
    THEN [t |-> <<start>>, y |-> <<YY.mass>>, y_last |-> YY, status |-> 0]
    ELSE [t |-> <<>>, y |-> <<>>, y_last |-> YY, status |-> 0]

\* The result after a step to time tn and state Yn.
SolStep(s, tn, Yn, start, stop, step, terminated) ==
    LET sample == InGrid(tn, start, stop, step)
    IN  [t      |-> IF sample THEN Append(s.t, tn) ELSE s.t,
         y      |-> IF sample THEN Append(s.y, Yn.mass) ELSE s.y,
         y_last |-> IF sample THEN Yn ELSE s.y_last,
         status |-> IF terminated THEN 1 ELSE 0]

(***************************************************************************)
(* OrbitalRocket.__init__: the burnout-time table                          *)
(***************************************************************************)
\* A burnout-time table whose last stage also waits for the coast.
RECURSIVE BurnoutTimeCoastBeforeLast(_, _, _, _, _)
BurnoutTimeCoastBeforeLast(k, n, propellant_mass, mass_flow_rates, coast_duration) ==
    IF k = 0 THEN propellant_mass[k] \div mass_flow_rates[k]
    ELSE BurnoutTimeCoastBeforeLast(k - 1, n, propellant_mass, mass_flow_rates,
                                    coast_duration)
            + coast_duration + propellant_mass[k] \div mass_flow_rates[k]

RECURSIVE BurnoutTime(_, _, _, _, _)
BurnoutTime(k, n, propellant_mass, mass_flow_rates, coast_duration) ==
    IF k = 0 THEN propellant_mass[k] \div mass_flow_rates[k]
    ELSE IF k < n - 1
    THEN BurnoutTime(k - 1, n, propellant_mass, mass_flow_rates, coast_duration)
            + coast_duration + propellant_mass[k] \div mass_flow_rates[k]
    ELSE BurnoutTime(k - 1, n, propellant_mass, mass_flow_rates, coast_duration)
            + propellant_mass[k] \div mass_flow_rates[k]

RECURSIVE SumTo(_, _)
SumTo(f, k) == IF k < 0 THEN 0 ELSE f[k] + SumTo(f, k - 1)

\* MassComponents.total_mass = payload + all step masses.
TotalMass(n, stages, payload_mass) ==
    payload_mass
    + SumTo([k \in 0..n-1 |-> stages[k].propellant_mass + stages[k].empty_mass], n - 1)

\* A vehicle whose Propagator starts counting the stages at 0.
OrbitalRocketStageZero(n, stages, payload_mass, coast_duration, final_coast, time_step, optimise_mode) ==
    LET pm  == [k \in 0..n-1 |-> stages[k].propellant_mass]
        mfr == [k \in 0..n-1 |-> stages[k].mass_flow_rate]
    IN  [number_of_stages         |-> n,
         propellant_mass          |-> pm,
         mass_flow_rates          |-> mfr,
         stage_thrusts            |-> [k \in 0..n-1 |-> stages[k].stage_thrust],
         empty_mass               |-> [k \in 0..n-1 |-> stages[k].empty_mass],
         mass                     |-> TotalMass(n, stages, payload_mass),
         coast_duration           |-> coast_duration,
         final_coast              |-> final_coast,
         burnout_times            |-> [k \in 0..n-1 |-> BurnoutTime(k, n, pm, mfr, coast_duration)],
         propagation_time_step    |-> time_step,
         optimise_mode            |-> optimise_mode,
         thrust                   |-> 0,
         gravity_turn_initiated   |-> FALSE,
         gravity_turn_operational |-> FALSE,
         current_stage            |-> 0]

\* The vehicle after OrbitalRocket(...) and Propagator(rocket, time_step, ...).
OrbitalRocket(n, stages, payload_mass, coast_duration, final_coast, time_step, optimise_mode) ==
    LET pm  == [k \in 0..n-1 |-> stages[k].propellant_mass]
        mfr == [k \in 0..n-1 |-> stages[k].mass_flow_rate]
    IN  [number_of_stages         |-> n,
         propellant_mass          |-> pm,
         mass_flow_rates          |-> mfr,
         stage_thrusts            |-> [k \in 0..n-1 |-> stages[k].stage_thrust],
         empty_mass               |-> [k \in 0..n-1 |-> stages[k].empty_mass],
         mass                     |-> TotalMass(n, stages, payload_mass),
         coast_duration           |-> coast_duration,
         final_coast              |-> final_coast,
         burnout_times            |-> [k \in 0..n-1 |-> BurnoutTime(k, n, pm, mfr, coast_duration)],
         propagation_time_step    |-> time_step,
         optimise_mode            |-> optimise_mode,
         thrust                   |-> 0,
         gravity_turn_initiated   |-> FALSE,
         gravity_turn_operational |-> FALSE,
         current_stage            |-> -1]

(***************************************************************************)
(* OrbitalThrust.calculate                                                 *)
(***************************************************************************)
\* The scan of the burnout-time table for thrust and mass flow.
RECURSIVE ThrustScan(_, _, _)
ThrustScan(k, tt, rk) ==
    IF k >= rk.number_of_stages
    THEN [thrust |-> 0, mass_flow_rate |-> 0, index_error |-> FALSE]
    ELSE IF tt < rk.burnout_times[k]
    THEN IF rk.current_stage \in DOMAIN rk.stage_thrusts
         THEN [thrust         |-> rk.stage_thrusts[rk.current_stage],
               mass_flow_rate |-> rk.mass_flow_rates[rk.current_stage],
               index_error    |-> FALSE]
         ELSE [thrust |-> 0, mass_flow_rate |-> 0, index_error |-> TRUE]
    ELSE IF tt < rk.burnout_times[k] + rk.coast_duration
    THEN [thrust |-> 0, mass_flow_rate |-> 0, index_error |-> FALSE]
    ELSE ThrustScan(k + 1, tt, rk)

\* A pitch-over branch that does not look at gravity_turn_operational.
ThrustBranchAlways(alt, rk) ==
    IF alt <= VerticalAscentAltitude /\ ~rk.gravity_turn_initiated THEN "vertical"
    ELSE IF alt <= PitchOverAltitude THEN "pitch_over"
    ELSE "cruise"

\* Which thrust-direction branch an evaluation at altitude alt takes.
ThrustBranch(alt, rk) ==
    IF alt <= VerticalAscentAltitude /\ ~rk.gravity_turn_initiated THEN "vertical"
    ELSE IF alt <= PitchOverAltitude /\ ~rk.gravity_turn_operational THEN "pitch_over"
    ELSE "cruise"

\* A calculate whose dmassdt has the sign of the mass flow.
OrbitalThrust_calculateMassGain(YY, tt, rk) ==
    LET scan == ThrustScan(0, tt, rk)
        br   == ThrustBranch(YY.alt, rk)
    IN  [rocket |-> [rk EXCEPT
                        !.thrust = scan.thrust,
                        !.gravity_turn_initiated = IF br = "pitch_over" THEN TRUE ELSE @,
                        !.gravity_turn_operational = IF br = "cruise" THEN TRUE ELSE @],
         dmassdt     |-> scan.mass_flow_rate,
         branch      |-> br,
         index_error |-> scan.index_error]

\* calculate(Y, t, rocket): the vehicle as the call leaves it, and dmassdt.
OrbitalThrust_calculate(YY, tt, rk) ==
    LET scan == ThrustScan(0, tt, rk)
        br   == ThrustBranch(YY.alt, rk)
    IN  [rocket |-> [rk EXCEPT
                        !.thrust = scan.thrust,
                        !.gravity_turn_initiated = IF br = "pitch_over" THEN TRUE ELSE @,
                        !.gravity_turn_operational = IF br = "cruise" THEN TRUE ELSE @],
         dmassdt     |-> -scan.mass_flow_rate,
         branch      |-> br,
         index_error |-> scan.index_error]

(***************************************************************************)
(* SuborbitalRocket.__init__ and the parachutes                            *)
(***************************************************************************)
\* Lengths in cm, drag coefficients in hundredths.
DrogueDiameter == 25
MainDiameter == 100
ParachuteDragCoefficient == 175

\* Airframe inputs: diameter 0.15 m, drag coefficient 0.5.
Airframes == { [diameter |-> 15, drag_coefficient |-> 50] }

SuborbitalRocket(stage, payload_mass, airframe, final_coast, time_step) ==
    [propellant_mass       |-> [k \in 0..0 |-> stage.propellant_mass],
     mass_flow_rates       |-> [k \in 0..0 |-> stage.mass_flow_rate],
     stage_thrusts         |-> [k \in 0..0 |-> stage.stage_thrust],
     empty_mass            |-> [k \in 0..0 |-> stage.empty_mass],
     mass                  |-> payload_mass + stage.propellant_mass + stage.empty_mass,
     diameter              |-> airframe.diameter,
     drag_coefficient      |-> airframe.drag_coefficient,
     final_coast           |-> final_coast,
     burnout_time          |-> stage.propellant_mass \div stage.mass_flow_rate,
     propagation_time_step |-> time_step,
     parachute_deployed    |-> FALSE,
     burnout               |-> FALSE,
     thrust                |-> 0,
     mass_flow_rate        |-> 0]

deploy_drogue_parachute(rk) ==
    [rk EXCEPT !.diameter = DrogueDiameter,
               !.parachute_deployed = TRUE,
               !.drag_coefficient = ParachuteDragCoefficient]

deploy_main_parachute(rk) ==
    [rk EXCEPT !.diameter = MainDiameter,
               !.parachute_deployed = TRUE,
               !.drag_coefficient = ParachuteDragCoefficient]

(***************************************************************************)
(* Suborbital Propagator: the terminal events of each phase                *)
(***************************************************************************)
apoapsis_parachute_event(YY) == YY.vz

\* current_altitude - max(0.1 * (apoapsis - body_radius), 0.3 km), times 10.
main_parachute_event(YY, apo) ==
    InversePercentageOfMaxHeight * YY.alt
    - Max(apo - body_radius, InversePercentageOfMaxHeight * min_altitude_trigger)

\* An events list whose last phase still carries the apoapsis event.
eventsApoapsisStillArmed ==
    << {"ground_impact"},
       {"ground_impact", "apoapsis_parachute"},
       {"ground_impact", "main_parachute"},
       {"ground_impact", "apoapsis_parachute"} >>

\* The events armed in each phase (phase k is events[k + 1]).
events ==
    << {"ground_impact"},
       {"ground_impact", "apoapsis_parachute"},
       {"ground_impact", "main_parachute"},
       {"ground_impact"} >>

EventValue(e, YY, apo) ==
    CASE e = "ground_impact"      -> ground_impact_event(YY)
      [] e = "apoapsis_parachute" -> apoapsis_parachute_event(YY)
      [] e = "main_parachute"     -> main_parachute_event(YY, apo)

\* The events of phase k that are active over a step from YY to Yn.
ActiveEvents(k, YY, Yn, apo) ==
    { e \in events[k + 1] : Descending(EventValue(e, YY, apo), EventValue(e, Yn, apo)) }

(***************************************************************************)
(* Initial state: a vehicle and its Propagator have been constructed and   *)
(* propagate() has initialised its locals.                                 *)
(***************************************************************************)
OrbitalRockets ==
    UNION { { OrbitalRocket(n, st, p, c, f, d, o) :
                st \in {[k \in 0..n-1 |-> StageSpec(k)]}, p \in PayloadMasses,
                c \in CoastDurations, f \in FinalCoasts, d \in TimeSteps,
                o \in BOOLEAN }
            : n \in 1..MaxStages }

SuborbitalRockets ==
    { SuborbitalRocket(st, p, a, f, d) :
        st \in {StageSpec(2)}, p \in PayloadMasses, a \in Airframes,
        f \in FinalCoasts, d \in TimeSteps }

\* position [0, 0, 6371], velocity [0, 0, 1e-8]: on the pad, moving up.
LaunchState(rk) == [alt |-> 0, vz |-> 1, mass |-> rk.mass]

NoSol(YY) == [t |-> <<>>, y |-> <<>>, y_last |-> YY, status |-> 0]

\* No constructor or perturbation call is being looked at.
NoFunctionCall ==
    /\ mass_components = [called |-> FALSE]
    /\ solver = [called |-> FALSE]
    /\ vehicle = [called |-> FALSE]
    /\ perturbation = [called |-> FALSE]
    /\ density = [called |-> FALSE]

Init ==
    /\ flight \in {"orbital", "suborbital"}
    /\ rocket \in IF flight = "orbital" THEN OrbitalRockets ELSE SuborbitalRockets
    /\ pc = "loop"
    /\ i = 0
    /\ U0 = LaunchState(rocket)
    /\ t_start = 0
    /\ t_starts = <<0>>
    /\ t_end = 0
    /\ t_eval = <<>>
    /\ t = 0
    /\ Y = LaunchState(rocket)
    /\ sol = NoSol(LaunchState(rocket))
    /\ combined_Y = <<>>
    /\ combined_t_eval = <<>>
    /\ section_indices = <<>>
    /\ start_index = 0
    /\ apoapsis = 0
    /\ printed = <<>>
    /\ branch = "none"
    /\ pitch_over_count = 0
    /\ burned = [k \in 0..(IF flight = "orbital" THEN rocket.number_of_stages ELSE Len(events) - 1) |-> 0]
    /\ event_log = <<>>
    /\ NoFunctionCall

(***************************************************************************)
(* Orbital Propagator.propagate                                            *)
(***************************************************************************)
\* A phase start time that is always the launch.
OrbitalTStartFromLaunch(k, rk) == 0

\* t_start of phase k.
OrbitalTStart(k, rk) == IF k = 0 THEN 0 ELSE rk.burnout_times[k - 1]

OrbitalTEnd(k, rk) ==
    IF k < rk.number_of_stages THEN rk.burnout_times[k]
    ELSE rk.burnout_times[rk.number_of_stages - 1] + rk.final_coast

\* A loop top that keeps the spent stage's empty mass on board.
OrbitalPhaseStartNoSeparation ==
    /\ flight = "orbital"
    /\ pc = "loop"
    /\ LET ts == OrbitalTStart(i, rocket)
           te == OrbitalTEnd(i, rocket)
           u  == U0
           dt == rocket.propagation_time_step
       IN  /\ t_start' = ts
           /\ t_end' = te
           /\ U0' = u
           /\ rocket' = [rocket EXCEPT !.current_stage = @ + 1]
           /\ t_eval' = arange(ts, te, dt)
           /\ t' = ts
           /\ Y' = u
           /\ sol' = SolStart(ts, te, dt, u)
    /\ pc' = "solve"
    /\ UNCHANGED <<flight, i, t_starts, combined_Y, combined_t_eval, section_indices,
                   start_index, apoapsis, printed, branch, pitch_over_count, burned,
                   event_log>>
    /\ UNCHANGED function_vars

\* Top of the loop body up to the call of solve_ivp.
OrbitalPhaseStart ==
    /\ flight = "orbital"
    /\ pc = "loop"
    /\ LET ts == OrbitalTStart(i, rocket)
           te == OrbitalTEnd(i, rocket)
           u  == IF i = 0 THEN U0
                 ELSE [U0 EXCEPT !.mass = @ - rocket.empty_mass[i - 1]]
           dt == rocket.propagation_time_step
       IN  /\ t_start' = ts
           /\ t_end' = te
           /\ U0' = u
           /\ rocket' = [rocket EXCEPT !.current_stage = @ + 1]
           /\ t_eval' = arange(ts, te, dt)
           /\ t' = ts
           /\ Y' = u
           /\ sol' = SolStart(ts, te, dt, u)
    /\ pc' = "solve"
    /\ UNCHANGED <<flight, i, t_starts, combined_Y, combined_t_eval, section_indices,
                   start_index, apoapsis, printed, branch, pitch_over_count, burned,
                   event_log>>
    /\ UNCHANGED function_vars

\* One step of solve_ivp: _state_derivatives at (t, Y), then the step; the
\* step that ends the integration evaluates _state_derivatives at its end too.
OrbitalStep ==
    /\ flight = "orbital"
    /\ pc = "solve"
    /\ LET res == OrbitalThrust_calculate(Y, t, rocket)
           dt  == rocket.propagation_time_step
       IN  IF res.index_error
           THEN /\ pc' = "raised"
                /\ UNCHANGED <<rocket, t, Y, sol, branch, pitch_over_count, burned,
                               event_log>>
           ELSE \E alt_new \in OrbitalAltitudes :
                LET Yn   == [alt |-> alt_new, vz |-> Y.vz, mass |-> Y.mass + res.dmassdt]
                    hit  == Descending(ground_impact_event(Y), ground_impact_event(Yn))
                    last == hit \/ t + 1 >= t_end
                    fin  == OrbitalThrust_calculate(Yn, t + 1, res.rocket)
                    pitch_overs ==
                        (IF res.branch = "pitch_over" THEN 1 ELSE 0)
                        + (IF last /\ fin.branch = "pitch_over" THEN 1 ELSE 0)
                IN  /\ rocket' = IF last THEN fin.rocket ELSE res.rocket
                    /\ t' = t + 1
                    /\ Y' = Yn
                    /\ sol' = SolStep(sol, t + 1, Yn, t_start, t_end, dt, hit)
                    /\ pc' = IF last /\ fin.index_error THEN "raised"
                             ELSE IF last THEN "record" ELSE "solve"
                    /\ branch' = IF last THEN fin.branch ELSE res.branch
                    /\ pitch_over_count' =
                          IF pitch_over_count + pitch_overs < MaxPitchOverCount
                          THEN pitch_over_count + pitch_overs
                          ELSE MaxPitchOverCount
                    /\ burned' = [burned EXCEPT ![i] = @ - res.dmassdt]
                    /\ event_log' = IF hit THEN Append(event_log, <<i, "ground_impact">>)
                                    ELSE event_log
    /\ UNCHANGED <<flight, i, U0, t_start, t_starts, t_end, t_eval, combined_Y,
                   combined_t_eval, section_indices, start_index, apoapsis, printed>>
    /\ UNCHANGED function_vars

\* A crash branch without the break: the loop goes on to the next phase.
OrbitalRecordCrashNoBreak ==
    /\ flight = "orbital"
    /\ pc = "record"
    /\ sol.status = 1
    /\ combined_Y' = combined_Y \o sol.y
    /\ printed' = IF ~rocket.optimise_mode THEN Append(printed, i + 1) ELSE printed
    /\ \E r \in round2(Last(sol.t)) :
         LET dt == rocket.propagation_time_step
             te == arange(t_start, r + dt, dt)
             readjustment_error == Abs(Len(te) - Len(sol.y))
         IN  /\ t_eval' = te
             /\ combined_t_eval' = Readjust(combined_t_eval \o te, readjustment_error)
             /\ section_indices' =
                   Append(section_indices, <<start_index, start_index + Len(te)>>)
             /\ start_index' = start_index + Len(te)
    /\ U0' = sol.y_last
    /\ i' = IF i = rocket.number_of_stages THEN i ELSE i + 1
    /\ pc' = IF i = rocket.number_of_stages THEN "done" ELSE "loop"
    /\ UNCHANGED <<flight, rocket, t_start, t_starts, t_end, t, Y, sol,
                   apoapsis, branch, pitch_over_count, burned, event_log>>
    /\ UNCHANGED function_vars

\* sol.status == 1: the vehicle has crashed; warn, readjust the time vector, break
\* (and leave the loop: store the arrays and return).
OrbitalRecordCrash ==
    /\ flight = "orbital"
    /\ pc = "record"
    /\ sol.status = 1
    /\ combined_Y' = combined_Y \o sol.y
    /\ printed' = IF ~rocket.optimise_mode THEN Append(printed, i + 1) ELSE printed
    /\ \E r \in round2(Last(sol.t)) :
         LET dt == rocket.propagation_time_step
             te == arange(t_start, r + dt, dt)
             readjustment_error == Abs(Len(te) - Len(sol.y))
         IN  /\ t_eval' = te
             /\ combined_t_eval' = Readjust(combined_t_eval \o te, readjustment_error)
             /\ section_indices' =
                   Append(section_indices, <<start_index, start_index + Len(te)>>)
    /\ pc' = "done"
    /\ UNCHANGED <<flight, rocket, i, U0, t_start, t_starts, t_end, t, Y, sol,
                   start_index, apoapsis, branch, pitch_over_count, burned, event_log>>
    /\ UNCHANGED function_vars

\* sol.status != 1: append the phase, carry its last sample into the next one
\* (after the last phase: store the arrays and return).
OrbitalRecordPhase ==
    /\ flight = "orbital"
    /\ pc = "record"
    /\ sol.status # 1
    /\ combined_Y' = combined_Y \o sol.y
    /\ combined_t_eval' = combined_t_eval \o t_eval
    /\ section_indices' =
          Append(section_indices, <<start_index, start_index + Len(t_eval)>>)
    /\ start_index' = start_index + Len(t_eval)
    /\ U0' = sol.y_last
    /\ i' = IF i = rocket.number_of_stages THEN i ELSE i + 1
    /\ pc' = IF i = rocket.number_of_stages THEN "done" ELSE "loop"
    /\ UNCHANGED <<flight, rocket, t_start, t_starts, t_end, t_eval, t, Y, sol,
                   apoapsis, printed, branch, pitch_over_count, burned, event_log>>
    /\ UNCHANGED function_vars

(***************************************************************************)
(* SuborbitalThrust.calculate                                              *)
(***************************************************************************)
\* A calculate that does not look at rocket.burnout.
SuborbitalThrust_calculateAlwaysBurning(YY, tt, rk) ==
    LET rk2 == [rk EXCEPT !.thrust = rk.stage_thrusts[0],
                          !.mass_flow_rate = rk.mass_flow_rates[0]]
    IN  [rocket |-> rk2, dmassdt |-> -rk2.mass_flow_rate]

\* calculate(Y, t, rocket): the vehicle as the call leaves it, and dmassdt.
SuborbitalThrust_calculate(YY, tt, rk) ==
    LET rk2 == IF ~rk.burnout
               THEN [rk EXCEPT !.thrust = rk.stage_thrusts[0],
                               !.mass_flow_rate = rk.mass_flow_rates[0]]
               ELSE [rk EXCEPT !.thrust = 0, !.mass_flow_rate = 0]
    IN  [rocket |-> rk2, dmassdt |-> -rk2.mass_flow_rate]

(***************************************************************************)
(* Suborbital Propagator.propagate                                         *)
(***************************************************************************)
\* Top of the loop body up to the call of solve_ivp.
SuborbitalPhaseStart ==
    /\ flight = "suborbital"
    /\ pc = "loop"
    /\ LET te  == IF i = 0 THEN rocket.burnout_time
                  ELSE rocket.burnout_time + rocket.final_coast
           tss == IF i > 0 THEN Append(t_starts, Last(sol.t)) ELSE t_starts
           ts  == tss[i + 1]
           dt  == rocket.propagation_time_step
       IN  /\ t_end' = te
           /\ t_starts' = tss
           /\ rocket' = CASE i = 1 -> [rocket EXCEPT !.burnout = TRUE]
                          [] i = 2 -> deploy_drogue_parachute(rocket)
                          [] i = 3 -> deploy_main_parachute(rocket)
                          [] OTHER -> rocket
           /\ printed' = CASE i = 2 -> Append(printed, "drogue")
                           [] i = 3 -> Append(printed, "main")
                           [] OTHER -> printed
           /\ apoapsis' = IF i = 2 THEN body_radius + U0.alt ELSE apoapsis
           /\ t_eval' = arange(ts, te, dt)
           /\ t' = ts
           /\ Y' = U0
           /\ sol' = SolStart(ts, te, dt, U0)
    /\ pc' = "solve"
    /\ UNCHANGED <<flight, i, U0, t_start, combined_Y, combined_t_eval, section_indices,
                   start_index, branch, pitch_over_count, burned, event_log>>
    /\ UNCHANGED function_vars

\* One step of solve_ivp: _state_derivatives at (t, Y), then the step and the
\* terminal events of the phase.
SuborbitalStep ==
    /\ flight = "suborbital"
    /\ pc = "solve"
    /\ LET res == SuborbitalThrust_calculate(Y, t, rocket)
           dt  == rocket.propagation_time_step
       IN  \E alt_new \in SuborbitalAltitudes, vz_new \in VerticalVelocities :
             LET Yn     == [alt |-> alt_new, vz |-> vz_new, mass |-> Y.mass + res.dmassdt]
                 active == ActiveEvents(i, Y, Yn, apoapsis)
                 hit    == active # {}
             IN  /\ rocket' = res.rocket
                 /\ t' = t + 1
                 /\ Y' = Yn
                 /\ sol' = SolStep(sol, t + 1, Yn, t_starts[i + 1], t_end, dt, hit)
                 /\ pc' = IF hit \/ t + 1 >= t_end THEN "record" ELSE "solve"
                 /\ burned' = [burned EXCEPT ![i] = @ - res.dmassdt]
                 /\ IF hit
                    THEN \E e \in active : event_log' = Append(event_log, <<i, e>>)
                    ELSE event_log' = event_log
    /\ UNCHANGED <<flight, i, U0, t_start, t_starts, t_end, t_eval, combined_Y,
                   combined_t_eval, section_indices, start_index, apoapsis, printed,
                   branch, pitch_over_count>>
    /\ UNCHANGED function_vars

\* A loop body that returns as soon as a phase is ended by an event.
SuborbitalRecordBreakOnEvent ==
    /\ flight = "suborbital"
    /\ pc = "record"
    /\ combined_Y' = combined_Y \o sol.y
    /\ \E r \in round2(Last(sol.t)) :
         LET dt == rocket.propagation_time_step
             te == arange(t_starts[i + 1], r + dt, dt)
             readjustment_error == Abs(Len(te) - Len(sol.y))
         IN  /\ t_eval' = te
             /\ combined_t_eval' = Readjust(combined_t_eval \o te, readjustment_error)
             /\ section_indices' =
                   Append(section_indices, <<start_index, start_index + Len(te)>>)
             /\ start_index' = start_index + Len(te)
    /\ U0' = sol.y_last
    /\ i' = IF i = Len(events) - 1 \/ sol.status = 1 THEN i ELSE i + 1
    /\ pc' = IF i = Len(events) - 1 \/ sol.status = 1 THEN "done" ELSE "loop"
    /\ UNCHANGED <<flight, rocket, t_start, t_starts, t_end, t, Y, sol, apoapsis,
                   printed, branch, pitch_over_count, burned, event_log>>
    /\ UNCHANGED function_vars

\* After solve_ivp: append the phase, readjust the time vector, carry the last
\* sample into the next phase (after the last phase: store the arrays, return).
SuborbitalRecord ==
    /\ flight = "suborbital"
    /\ pc = "record"
    /\ combined_Y' = combined_Y \o sol.y
    /\ \E r \in round2(Last(sol.t)) :
         LET dt == rocket.propagation_time_step
             te == arange(t_starts[i + 1], r + dt, dt)
             readjustment_error == Abs(Len(te) - Len(sol.y))
         IN  /\ t_eval' = te
             /\ combined_t_eval' = Readjust(combined_t_eval \o te, readjustment_error)
             /\ section_indices' =
                   Append(section_indices, <<start_index, start_index + Len(te)>>)
             /\ start_index' = start_index + Len(te)
    /\ U0' = sol.y_last
    /\ i' = IF i = Len(events) - 1 THEN i ELSE i + 1
    /\ pc' = IF i = Len(events) - 1 THEN "done" ELSE "loop"
    /\ UNCHANGED <<flight, rocket, t_start, t_starts, t_end, t, Y, sol, apoapsis,
                   printed, branch, pitch_over_count, burned, event_log>>
    /\ UNCHANGED function_vars

Next ==
    \/ OrbitalPhaseStart
    \/ OrbitalStep
    \/ OrbitalRecordCrash
    \/ OrbitalRecordPhase
    \/ SuborbitalPhaseStart
    \/ SuborbitalStep
    \/ SuborbitalRecord

Spec == Init /\ [][Next]_vars

(***************************************************************************)
(* Exact rational arithmetic (numerator / positive denominator, reduced)   *)
(***************************************************************************)
RECURSIVE GCD(_, _)
GCD(a, b) == IF b = 0 THEN a ELSE GCD(b, a % b)

Rat(n, d) ==
    LET g == GCD(Abs(n), Abs(d))
    IN  IF d < 0 THEN [num |-> (0 - n) \div g, den |-> (0 - d) \div g]
        ELSE [num |-> n \div g, den |-> d \div g]

RInt(n) == [num |-> n, den |-> 1]

\* The sums and products cancel common factors before they multiply.
RAdd(x, y) ==
    LET g == GCD(x.den, y.den)
    IN  Rat(x.num * (y.den \div g) + y.num * (x.den \div g), (x.den \div g) * y.den)

RSub(x, y) ==
    LET g == GCD(x.den, y.den)
    IN  Rat(x.num * (y.den \div g) - y.num * (x.den \div g), (x.den \div g) * y.den)

RMul(x, y) ==
    LET g1 == GCD(Abs(x.num), y.den)
        g2 == GCD(Abs(y.num), x.den)
    IN  IF x.num = 0 \/ y.num = 0 THEN RInt(0)
        ELSE Rat((x.num \div g1) * (y.num \div g2), (x.den \div g2) * (y.den \div g1))

RDiv(x, y) == RMul(x, Rat(y.den, y.num))

RLess(x, y) ==
    LET g == GCD(x.den, y.den)
    IN  x.num * (y.den \div g) < y.num * (x.den \div g)

RECURSIVE RPow(_, _)
RPow(x, e) == IF e = 0 THEN RInt(1) ELSE RMul(x, RPow(x, e - 1))

\* np.sum of a list (a sequence) of numbers.
RECURSIVE RSum(_)
RSum(s) == IF s = <<>> THEN RInt(0) ELSE RAdd(s[1], RSum(Tail(s)))

(***************************************************************************)
(* MassComponents and bisection_solver                                     *)
(*                                                                         *)
(* Numbers are exact rationals.  The staging function                      *)
(*   f(L) = sum(v * log(v * L - 1)) - log(L) * sum(v) - sum(v * log(v * e))*)
(*          - burnout_velocity            (v: exhaust velocities, e:       *)
(*                                         structural ratios)              *)
(* is a sum of logarithms, f(L) = sum(v * log((v*L - 1) / (v*e*L)))        *)
(* - burnout_velocity.  With u the common unit of the exhaust velocities   *)
(* (their gcd), the model computes exp(f(L) / u), which is the rational    *)
(*   prod(((v*L - 1) / (v*e*L)) ^ (v / u)) / exp(burnout_velocity / u);    *)
(* the burnout velocity is given by burnout_ratio = exp(burnout_velocity   *)
(* / u), and the tolerance by tol = exp(1e-11 / u).  f > 0, f < 0 and      *)
(* abs(f) > 1e-11 are then exact comparisons of exp(f / u) with 1, tol.    *)
(* low, high and the midpoints are dyadic rationals; the 1e-11 added to    *)
(* the lower end is LowOffset.                                             *)
(***************************************************************************)
\* bisection_solver(max_iter=1000): the iteration cap, scaled to the model's grid.
max_iter == 3

\* bisection_solver(tol=1e-11), as exp(tol / u).
tol == Rat(17, 16)

\* The 1e-11 that get_mass_components adds to the lower end of the interval.
LowOffset == Rat(1, 16)

\* The length of a per-stage array (indexed from 0).
Size(a) == Cardinality(DOMAIN a)

RECURSIVE MinOver(_, _)
\* np.min of the first k + 1 entries of a.
MinOver(a, k) ==
    IF k = 0 THEN a[0]
    ELSE LET m == MinOver(a, k - 1) IN IF RLess(a[k], m) THEN a[k] ELSE m

RECURSIVE GcdOver(_, _)
GcdOver(a, k) == IF k < 0 THEN 0 ELSE GCD(a[k], GcdOver(a, k - 1))

\* MassComponents.__init__.
MassComponents(structural_ratios, effective_exhaust_velocities, payload_mass, burnout_ratio) ==
    [called                       |-> TRUE,
     done                         |-> FALSE,
     structural_ratios            |-> structural_ratios,
     effective_exhaust_velocities |-> effective_exhaust_velocities,
     payload_mass                 |-> payload_mass,
     burnout_ratio                |-> burnout_ratio]

\* (v * L - 1) / (v * e * L): the mass ratio of a stage for the multiplier L.
MassRatio(v, e, L) ==
    RDiv(RSub(RMul(RInt(v), L), RInt(1)), RMul(RMul(RInt(v), e), L))

RECURSIVE StagingProduct(_, _, _)
StagingProduct(mc, L, k) ==
    IF k < 0 THEN RInt(1)
    ELSE LET v == mc.effective_exhaust_velocities
             u == GcdOver(v, Size(v) - 1)
         IN  RMul(RPow(MassRatio(v[k], mc.structural_ratios[k], L), v[k] \div u),
                  StagingProduct(mc, L, k - 1))

\* exp(f(L) / u) for f the optimum staging function of mc.
optimum_staging_function(mc, L) ==
    RDiv(StagingProduct(mc, L, Size(mc.structural_ratios) - 1), mc.burnout_ratio)

\* The sign of f from exp(f / u).
Sign(x) == IF RLess(RInt(1), x) THEN 1 ELSE IF RLess(x, RInt(1)) THEN -1 ELSE 0

\* abs(f) > tol from exp(f / u).
ExceedsTolerance(x) == RLess(tol, x) \/ RLess(x, RDiv(RInt(1), tol))

Midpoint(low, high) == RDiv(RAdd(low, high), RInt(2))

\* bisection_solver: the locals on entry to the while loop.
bisection_start(low, high) ==
    [called |-> TRUE, pc |-> "while", low |-> low, high |-> high,
     mid |-> Midpoint(low, high), iter |-> 0]

\* The while condition of bisection_solver.
bisection_continues(mc, s) ==
    ExceedsTolerance(optimum_staging_function(mc, s.mid)) /\ s.iter < max_iter

\* A loop body that replaces the other end of the interval.
bisection_bodyOtherEnd(mc, s) ==
    LET shrink_high == Sign(optimum_staging_function(mc, s.low))
                         * Sign(optimum_staging_function(mc, s.mid)) < 0
        low  == IF shrink_high THEN s.mid ELSE s.low
        high == IF shrink_high THEN s.high ELSE s.mid
    IN  [s EXCEPT !.iter = @ + 1, !.low = low, !.high = high,
                  !.mid = Midpoint(low, high)]

\* One pass of the loop body.
bisection_body(mc, s) ==
    LET shrink_high == Sign(optimum_staging_function(mc, s.low))
                         * Sign(optimum_staging_function(mc, s.mid)) < 0
        low  == IF shrink_high THEN s.low ELSE s.mid
        high == IF shrink_high THEN s.mid ELSE s.high
    IN  [s EXCEPT !.iter = @ + 1, !.low = low, !.high = high,
                  !.mid = Midpoint(low, high)]

\* The interval get_mass_components hands to bisection_solver.
StagingInterval(mc) ==
    LET v == mc.effective_exhaust_velocities
        n == Size(v)
    IN  [low  |-> RAdd(RDiv(RInt(1), MinOver([k \in 0..n-1 |-> RInt(v[k])], n - 1)),
                       LowOffset),
         high |-> MinOver([k \in 0..n-1 |->
                             RMul(RInt(v[k]), RSub(RInt(1), mc.structural_ratios[k]))],
                          n - 1)]

\* A step-mass entry built on the previous entry alone instead of the whole sum.
StepMassOnlyPrevious(step_mass, idx, mass_ratio, structural_ratios) ==
    RMul(RDiv(RSub(mass_ratio[idx - 1], RInt(1)),
              RSub(RInt(1), RMul(mass_ratio[idx - 1], structural_ratios[idx - 1]))),
         Last(step_mass))

\* The entry the loop appends for stage idx - 1 (idx is the loop's i).
StepMassEntry(step_mass, idx, mass_ratio, structural_ratios) ==
    RMul(RDiv(RSub(mass_ratio[idx - 1], RInt(1)),
              RSub(RInt(1), RMul(mass_ratio[idx - 1], structural_ratios[idx - 1]))),
         RSum(step_mass))

\* The step-mass list as the loop builds it: payload first, then the stages from the last down to 0.
RECURSIVE StepMassList(_, _, _, _)
StepMassList(step_mass, idx, mass_ratio, structural_ratios) ==
    IF idx = 0 THEN step_mass
    ELSE StepMassList(
            Append(step_mass, StepMassEntry(step_mass, idx, mass_ratio, structural_ratios)),
            idx - 1, mass_ratio, structural_ratios)

\* step_mass[k:] of a 0-indexed array with entries 0..n, as a list.
From(a, k, n) == [j \in 1..(n - k + 1) |-> a[k + j - 1]]

\* get_mass_components after the bisection has returned lagrange_multiplier.
mass_budget(mc, lagrange_multiplier) ==
    LET n  == Size(mc.structural_ratios)
        mass_ratio == [k \in 0..n-1 |->
                         MassRatio(mc.effective_exhaust_velocities[k],
                                   mc.structural_ratios[k], lagrange_multiplier)]
        list == StepMassList(<<RInt(mc.payload_mass)>>, n, mass_ratio,
                             mc.structural_ratios)
        step_mass  == [k \in 0..n |-> list[n + 1 - k]]
        empty_mass == [k \in 0..n-1 |-> RMul(step_mass[k], mc.structural_ratios[k])]
    IN  [mc EXCEPT !.done = TRUE] @@
        [lagrange_multiplier |-> lagrange_multiplier,
         mass_ratio          |-> mass_ratio,
         step_mass           |-> step_mass,
         empty_mass          |-> empty_mass,
         propellant_mass     |-> [k \in 0..n-1 |-> RSub(step_mass[k], empty_mass[k])],
         total_mass          |-> RSum(From(step_mass, 0, n)),
         mass_of_each_stage  |-> [k \in 0..n |-> RSum(From(step_mass, k, n))]]

\* Inputs: one or two stages; structural ratios 1/4, 1/2; payload 3 kg.
StructuralRatioValues == {Rat(1, 4), Rat(1, 2)}

StageLists ==
    { [structural_ratios |-> [k \in 0..0 |-> e],
       effective_exhaust_velocities |-> [k \in 0..0 |-> v]] :
        e \in StructuralRatioValues, v \in {2, 4} }
    \cup
    { [structural_ratios |-> [k \in 0..1 |-> IF k = 0 THEN e0 ELSE e1],
       effective_exhaust_velocities |-> [k \in 0..1 |-> 4]] :
        e0 \in StructuralRatioValues, e1 \in StructuralRatioValues }

\* exp(burnout_velocity / u).
BurnoutRatios == {Rat(5, 4), Rat(3, 2), RInt(2), Rat(5, 2), RInt(3), RInt(6), RInt(20)}

MassBudgets ==
    { MassComponents(sl.structural_ratios, sl.effective_exhaust_velocities, p, r) :
        sl \in StageLists, p \in PayloadMasses, r \in BurnoutRatios }

\* No propagate() run is being looked at.
NoPropagation ==
    /\ flight = "none"
    /\ rocket = [number_of_stages |-> 0]
    /\ pc = "idle"
    /\ i = 0
    /\ U0 = [alt |-> 0, vz |-> 0, mass |-> 0]
    /\ t_start = 0
    /\ t_starts = <<>>
    /\ t_end = 0
    /\ t_eval = <<>>
    /\ t = 0
    /\ Y = [alt |-> 0, vz |-> 0, mass |-> 0]
    /\ sol = NoSol([alt |-> 0, vz |-> 0, mass |-> 0])
    /\ combined_Y = <<>>
    /\ combined_t_eval = <<>>
    /\ section_indices = <<>>
    /\ start_index = 0
    /\ apoapsis = 0
    /\ printed = <<>>
    /\ branch = "none"
    /\ pitch_over_count = 0
    /\ burned = <<>>
    /\ event_log = <<>>

\* get_mass_components() has been called and has reached the loop of bisection_solver.
InitMass ==
    /\ NoPropagation
    /\ mass_components \in MassBudgets
    /\ solver = bisection_start(StagingInterval(mass_components).low,
                                StagingInterval(mass_components).high)
    /\ vehicle = [called |-> FALSE]
    /\ perturbation = [called |-> FALSE]
    /\ density = [called |-> FALSE]

\* while abs(function(mid)) > tol and iter < max_iter: one pass.
bisection_iterate ==
    /\ solver.called
    /\ solver.pc = "while"
    /\ bisection_continues(mass_components, solver)
    /\ solver' = bisection_body(mass_components, solver)
    /\ UNCHANGED <<propagation_vars, mass_components, vehicle, perturbation, density>>

\* The loop has ended: return mid; get_mass_components computes the masses from it.
get_mass_components ==
    /\ solver.called
    /\ solver.pc = "while"
    /\ ~bisection_continues(mass_components, solver)
    /\ solver' = [solver EXCEPT !.pc = "returned"]
    /\ mass_components' = mass_budget(mass_components, solver.mid)
    /\ UNCHANGED <<propagation_vars, vehicle, perturbation, density>>

NextMass == bisection_iterate \/ get_mass_components

SpecMass == InitMass /\ [][NextMass]_vars

(***************************************************************************)
(* Properties                                                              *)
(***************************************************************************)
StrictlyIncreasing(s) == \A k \in 1..Len(s) - 1 : s[k] < s[k + 1]

\* The phases in which the ground-impact event has fired.
GroundImpactPhases ==
    { event_log[k][1] : k \in { j \in 1..Len(event_log) : event_log[j][2] = "ground_impact" } }

C2_GroundImpactAborts ==
    \A k \in GroundImpactPhases :
        flight = "orbital" =>
            /\ pc \in {"record", "done"}
            /\ i = k
            /\ rocket.current_stage = k
            /\ pc = "record" => ENABLED OrbitalRecordCrash
            /\ pc = "done" =>
                 /\ Len(section_indices) = k + 1
                 /\ printed = IF rocket.optimise_mode THEN <<>> ELSE <<k + 1>>

\* C2, witness: a flight that crashed after its first phase has returned, and
\* the warning was printed.
C2_Witness ==
    /\ flight = "orbital"
    /\ pc = "done"
    /\ GroundImpactPhases # {}
    /\ i >= 1
    /\ ~rocket.optimise_mode
    /\ printed = <<i + 1>>

\* C3: after propagate() has returned, t_eval and Y hold the same number of
\* samples.
C3_SameNumberOfSamples ==
    pc = "done" => Len(combined_t_eval) = Len(combined_Y)

\* The recorded time samples of segment k (1-based position in section_indices).
SegmentSamples(k) ==
    { j \in 1..Len(combined_t_eval) :
        section_indices[k][1] < j /\ j <= section_indices[k][2] }

\* C5: the orbital time samples are strictly increasing; the samples of phase
\* p start at burnout_times[p-1] (0 for p = 0) and stay strictly below
\* burnout_times[p], so that no boundary sample is recorded twice.
C5_OrbitalTimesStrictlyIncreasing ==
    flight = "orbital" =>
        /\ StrictlyIncreasing(combined_t_eval)
        /\ \A k \in 1..Len(section_indices) :
             LET p     == k - 1
                 first == section_indices[k][1] + 1
                 lower == IF p = 0 THEN 0 ELSE rocket.burnout_times[p - 1]
             IN  /\ first \in SegmentSamples(k) => combined_t_eval[first] = lower
                 /\ \A j \in SegmentSamples(k) :
                      /\ lower <= combined_t_eval[j]
                      /\ p < rocket.number_of_stages =>
                           combined_t_eval[j] < rocket.burnout_times[p]

\* C5, witness: a multi-stage flight has returned without a crash, every
\* phase recorded with at least two samples in its first segment.
C5_Witness ==
    /\ flight = "orbital"
    /\ pc = "done"
    /\ rocket.number_of_stages >= 2
    /\ GroundImpactPhases = {}
    /\ Len(section_indices) = rocket.number_of_stages + 1
    /\ Cardinality(SegmentSamples(1)) >= 2
    /\ SegmentSamples(Len(section_indices)) # {}

\* C6: in an orbital flight without ground impact every stage has burnt
\* exactly its propellant mass during its phase, i.e. by its burnout time.
C6_StageExhaustedAtBurnout ==
    (flight = "orbital" /\ pc = "done" /\ GroundImpactPhases = {}) =>
        \A k \in 0..rocket.number_of_stages - 1 : burned[k] = rocket.propellant_mass[k]

\* The events that have fired, and the positions of an event in the log.
FiredEvents == { event_log[k] : k \in 1..Len(event_log) }

Positions(e) == { k \in 1..Len(event_log) : event_log[k][2] = e }

\* C4: the recorded suborbital time samples are strictly increasing, no
\* boundary sample is recorded twice.
C4_SuborbitalTimesStrictlyIncreasing ==
    (flight = "suborbital" /\ pc = "done") => StrictlyIncreasing(combined_t_eval)

\* C7: the drogue parachute is deployed, and the apoapsis recorded, only when
\* the apoapsis event has ended phase 2.
C7_DrogueOnlyOnApoapsis ==
    (flight = "suborbital"
        /\ (rocket.parachute_deployed \/ rocket.diameter = DrogueDiameter \/ apoapsis # 0))
    => <<1, "apoapsis_parachute">> \in FiredEvents

\* C8: the main parachute is deployed only when the main-parachute event has
\* ended phase 3, and phase 3 is not integrated further with the vehicle
\* descending at or below max(10 % of the apoapsis altitude, 0.3 km).
C8_MainChuteOnTrigger ==
    flight = "suborbital" =>
        /\ rocket.diameter = MainDiameter => <<2, "main_parachute">> \in FiredEvents
        /\ (i = 2 /\ pc = "solve" /\ Y.vz < 0) => main_parachute_event(Y, apoapsis) > 0

\* C9: the apoapsis event fires only in phase 2 and the main-parachute event
\* only in phase 3, each at most once, phase 3 starts only after phase 2 has
\* been recorded, and in a flight in which both have fired the apoapsis event
\* has fired exactly once and before the main-parachute event.
C9_ApoapsisOnceBeforeMainChute ==
    flight = "suborbital" =>
        /\ \A ev \in FiredEvents :
             /\ ev[2] = "apoapsis_parachute" => ev[1] = 1
             /\ ev[2] = "main_parachute" => ev[1] = 2
        /\ Cardinality(Positions("apoapsis_parachute")) <= 1
        /\ Cardinality(Positions("main_parachute")) <= 1
        /\ (i >= 2 /\ pc # "loop") => Len(section_indices) >= 2
        /\ (pc = "done" /\ Positions("main_parachute") # {}
                /\ Positions("apoapsis_parachute") # {})
           => /\ Cardinality(Positions("apoapsis_parachute")) = 1
              /\ \A a \in Positions("apoapsis_parachute"), m \in Positions("main_parachute") :
                   a < m

\* C9, witness: a flight whose phases ended by burnout, apoapsis, main-chute
\* trigger and ground impact has returned.
C9_Witness ==
    /\ flight = "suborbital"
    /\ pc = "done"
    /\ event_log = << <<1, "apoapsis_parachute">>, <<2, "main_parachute">>,
                      <<3, "ground_impact">> >>

\* C10: the suborbital propagate() records one segment per phase, in phase
\* order (ascent, coast, drogue descent, main-chute descent), and returns with
\* exactly 4 of them whichever way each phase ended.
C10_FourSegmentsInOrder ==
    flight = "suborbital" =>
        /\ pc \in {"loop", "solve", "record"} => Len(section_indices) = i
        /\ pc = "done" => (Len(section_indices) = 4 /\ i = 3)
        /\ pc \in {"solve", "record"} =>
             CASE i = 0 -> ~rocket.burnout /\ ~rocket.parachute_deployed
               [] i = 1 -> rocket.burnout /\ ~rocket.parachute_deployed
               [] i = 2 -> rocket.burnout /\ rocket.diameter = DrogueDiameter
               [] i = 3 -> rocket.burnout /\ rocket.diameter = MainDiameter

\* C10, witness: a flight whose ascent already ended by ground impact, and
\* whose coast ended at its end time, has returned.
C10_Witness ==
    /\ flight = "suborbital"
    /\ pc = "done"
    /\ Len(section_indices) = 4
    /\ <<0, "ground_impact">> \in FiredEvents
    /\ \A ev \in FiredEvents : ev[1] # 1

(***************************************************************************)
(* Properties of the mass budget (under SpecMass)                          *)
(***************************************************************************)
\* bisection_solver has returned and get_mass_components has used its value.
Returned == solver.called /\ solver.pc = "returned"

\* C11: bisection_solver never returns a value x with abs(f(x)) > tol as if it
\* were the root: a root that is not bracketed, or not found within max_iter
\* iterations, makes the call fail instead of returning.
C11_NeverReturnsNonRoot ==
    Returned =>
        ~ExceedsTolerance(optimum_staging_function(mass_components, solver.mid))

\* The sum of the entries a..b of a per-stage array.
RECURSIVE StageSum(_, _, _)
StageSum(f, a, b) == IF a > b THEN RInt(0) ELSE RAdd(f[a], StageSum(f, a + 1, b))

\* The bisection has ended on a root: abs(f(lagrange_multiplier)) <= tol.
Converged ==
    /\ Returned
    /\ ~ExceedsTolerance(optimum_staging_function(mass_components, solver.mid))

\* C17: in every result of get_mass_components, total_mass = payload_mass + the
\* sum of the stages' step masses; for every stage empty_mass + propellant_mass
\* is its step mass, empty_mass = structural_ratio x step mass, and the step mass
\* is (mass_ratio - 1) / (1 - mass_ratio * structural_ratio) x (payload plus the
\* step masses of all later stages).
C17_MassComponentsAddUp ==
    Returned =>
        LET mc == mass_components
            n  == Size(mc.structural_ratios)
            payload == RInt(mc.payload_mass)
        IN  /\ mc.step_mass[n] = payload
            /\ mc.total_mass = RAdd(payload, StageSum(mc.step_mass, 0, n - 1))
            /\ \A k \in 0..n-1 :
                 /\ RAdd(mc.empty_mass[k], mc.propellant_mass[k]) = mc.step_mass[k]
                 /\ mc.empty_mass[k] = RMul(mc.structural_ratios[k], mc.step_mass[k])
                 /\ mc.step_mass[k] =
                       RMul(RDiv(RSub(mc.mass_ratio[k], RInt(1)),
                                 RSub(RInt(1), RMul(mc.mass_ratio[k], mc.structural_ratios[k]))),
                            RAdd(payload, StageSum(mc.step_mass, k + 1, n - 1)))

\* A two-stage budget with different stages has been computed from a root.
C17_Witness ==
    /\ Converged
    /\ Size(mass_components.structural_ratios) = 2
    /\ mass_components.structural_ratios[0] # mass_components.structural_ratios[1]
    /\ mass_components.step_mass[0] # mass_components.step_mass[1]

\* C18: whenever the bisection has found a root (the burnout velocity is
\* achievable), every stage's mass ratio computed from it is > 1.
C18_MassRatiosAboveOne ==
    Converged =>
        \A k \in DOMAIN mass_components.mass_ratio :
            RLess(RInt(1), mass_components.mass_ratio[k])

\* C19: in every mass budget (here: every one computed from a root) entry k of
\* mass_of_each_stage is the payload plus the step masses k.., the entries
\* strictly decrease toward the payload, and the last entry is payload_mass.
C19_CumulativeMassesDecrease ==
    Converged =>
        LET mc == mass_components
            n  == Size(mc.structural_ratios)
        IN  /\ mc.mass_of_each_stage[n] = RInt(mc.payload_mass)
            /\ \A k \in 0..n :
                 mc.mass_of_each_stage[k] =
                    RAdd(RInt(mc.payload_mass), StageSum(mc.step_mass, k, n - 1))
            /\ \A k \in 0..n-1 :
                 RLess(mc.mass_of_each_stage[k + 1], mc.mass_of_each_stage[k])

(***************************************************************************)
(* Vehicle construction: OrbitalRocket(...) and SuborbitalRocket(...)      *)
(*                                                                         *)
(* The stage lists (structural_ratios, specific_impulses) have             *)
(* list_length entries; the mass budget of a non-empty list is the one of  *)
(* StageSpec.  Angles are in degrees.                                      *)
(***************************************************************************)
Latitudes == {0, 28, 52}

TargetInclinations == {0, 28, 60}

\* coast_duration as the caller may pass it, negative values included.
AnyCoastDurations == {-7, -1} \cup CoastDurations

\* The arguments of a constructor call.
ConstructorCalls ==
    { [kind |-> "orbital", launch_site |-> <<lat, 0>>, target_inclination |-> inc,
       list_length |-> m, number_of_stages |-> n, payload_mass |-> p,
       coast_duration |-> c, final_coast |-> f] :
        lat \in Latitudes, inc \in TargetInclinations, m \in 0..MaxStages,
        n \in 0..MaxStages, p \in PayloadMasses, c \in AnyCoastDurations,
        f \in FinalCoasts }
    \cup
    { [kind |-> "suborbital", launch_site |-> <<lat, 0>>, list_length |-> m,
       payload_mass |-> p, final_coast |-> f] :
        lat \in Latitudes, m \in 0..1, p \in PayloadMasses, f \in FinalCoasts }

\* if self.target_inclination <= self.launch_site[0]
InclinationNotAbove(target_inclination, launch_site) ==
    target_inclination <= launch_site[1]

\* if self.target_inclination < self.launch_site[0]
InclinationBelow(target_inclination, launch_site) ==
    target_inclination < launch_site[1]

\* OrbitalRocket.__init__: what the call does, in the order of the code.
OrbitalRocket_init(a) ==
    IF a.list_length = 0
    THEN [raised |-> "ValueError: zero-size array to reduction operation minimum"]
    ELSE IF a.number_of_stages > a.list_length
    THEN [raised |-> "IndexError: index out of bounds"]
    ELSE IF InclinationBelow(a.target_inclination, a.launch_site)
    THEN [raised |-> "ValueError: The target inclination must be greater than the latitude of the launch site"]
    ELSE LET stages == [k \in 0..a.list_length-1 |-> StageSpec(k)]
             rk == OrbitalRocket(a.list_length, stages, a.payload_mass,
                                 a.coast_duration, a.final_coast, 0, FALSE)
         IN  [raised |-> "",
              rocket |-> [rk EXCEPT
                 !.number_of_stages = a.number_of_stages,
                 !.burnout_times =
                    [k \in 0..a.number_of_stages-1 |->
                       BurnoutTime(k, a.number_of_stages, rk.propellant_mass,
                                   rk.mass_flow_rates, a.coast_duration)]]]

\* SuborbitalRocket.__init__ (single-stage lists, or empty ones).
SuborbitalRocket_init(a) ==
    IF a.list_length = 0
    THEN [raised |-> "ValueError: zero-size array to reduction operation minimum"]
    ELSE [raised |-> "",
          rocket |-> SuborbitalRocket(StageSpec(2), a.payload_mass,
                                      CHOOSE af \in Airframes : TRUE, a.final_coast, 0)]

\* A constructor has been called and has not run yet.
InitConstruct ==
    /\ NoPropagation
    /\ mass_components = [called |-> FALSE]
    /\ solver = [called |-> FALSE]
    /\ vehicle \in { [called |-> TRUE, finished |-> FALSE, args |-> a] :
                        a \in ConstructorCalls }
    /\ perturbation = [called |-> FALSE]
    /\ density = [called |-> FALSE]

OrbitalRocketConstruct ==
    /\ vehicle.called
    /\ ~vehicle.finished
    /\ vehicle.args.kind = "orbital"
    /\ vehicle' = [vehicle EXCEPT !.finished = TRUE] @@ OrbitalRocket_init(vehicle.args)
    /\ UNCHANGED <<propagation_vars, mass_components, solver, perturbation, density>>

SuborbitalRocketConstruct ==
    /\ vehicle.called
    /\ ~vehicle.finished
    /\ vehicle.args.kind = "suborbital"
    /\ vehicle' = [vehicle EXCEPT !.finished = TRUE] @@ SuborbitalRocket_init(vehicle.args)
    /\ UNCHANGED <<propagation_vars, mass_components, solver, perturbation, density>>

NextConstruct == OrbitalRocketConstruct \/ SuborbitalRocketConstruct

SpecConstruct == InitConstruct /\ [][NextConstruct]_vars

(***************************************************************************)
(* Properties of vehicle construction (under SpecConstruct)                *)
(***************************************************************************)
\* The constructor has returned a vehicle.
VehicleReturned == vehicle.called /\ vehicle.finished /\ vehicle.raised = ""

OrbitalCallFinished ==
    vehicle.called /\ vehicle.finished /\ vehicle.args.kind = "orbital"

\* burnout_times[k] < burnout_times[k + 1] for all stages.
ScheduleStrictlyIncreasing(rk) ==
    \A k \in 0..rk.number_of_stages-2 : rk.burnout_times[k] < rk.burnout_times[k + 1]

\* C12: no vehicle is ever returned whose burnout schedule is not strictly
\* increasing or whose stage lists are degenerate (empty, or of a length
\* different from number_of_stages): such a construction fails.
C12_DegenerateVehicleRejected ==
    VehicleReturned =>
        /\ vehicle.args.list_length >= 1
        /\ vehicle.args.kind = "orbital" =>
              /\ vehicle.args.number_of_stages = vehicle.args.list_length
              /\ ScheduleStrictlyIncreasing(vehicle.rocket)

\* The stage lists are not empty and hold number_of_stages entries at least.
StageListsUsable ==
    /\ vehicle.args.list_length >= 1
    /\ vehicle.args.number_of_stages <= vehicle.args.list_length

InclinationError ==
    "ValueError: The target inclination must be greater than the latitude of the launch site"

C14_BurnoutSchedule ==
    (VehicleReturned /\ vehicle.args.kind = "orbital" /\ vehicle.args.coast_duration >= 0) =>
        LET rk == vehicle.rocket
            n  == rk.number_of_stages
            burn(k) == rk.propellant_mass[k] \div rk.mass_flow_rates[k]
        IN  /\ ScheduleStrictlyIncreasing(rk)
            /\ \A k \in 0..n-1 : rk.propellant_mass[k] > 0 /\ rk.mass_flow_rates[k] > 0
            /\ \A k \in 0..n-1 :
                 rk.burnout_times[k] =
                    IF k = 0 THEN burn(0)
                    ELSE IF k < n - 1
                    THEN rk.burnout_times[k - 1] + rk.coast_duration + burn(k)
                    ELSE rk.burnout_times[k - 1] + burn(k)

\* A three-stage vehicle with a positive coast has been built.
C14_Witness ==
    /\ VehicleReturned
    /\ vehicle.args.kind = "orbital"
    /\ vehicle.args.coast_duration > 0
    /\ vehicle.rocket.number_of_stages = 3

(***************************************************************************)
(* Properties of the orbital phases (under Spec)                           *)
(***************************************************************************)
\* C15: at every orbital phase boundary but the first (phase i >= 1), the
\* initial state of phase i has the position and velocity of the final recorded
\* state of phase i - 1, and its mass is that state's mass minus
\* empty_mass[i - 1]; no other component changes.
C15_StageSeparationOnly ==
    [][ (flight = "orbital" /\ pc = "loop" /\ pc' = "solve" /\ i >= 1) =>
          /\ Last(sol.y) = sol.y_last.mass
          /\ Last(combined_Y) = sol.y_last.mass
          /\ U0' = [sol.y_last EXCEPT !.mass = @ - rocket.empty_mass[i - 1]]
          /\ Y' = U0'
          /\ i' = i ]_vars

\* A phase after the first has started, a non-empty stage having been dropped, and
\* the previous phase's last recorded state is not where its integration ended.
C15_Witness ==
    /\ flight = "orbital"
    /\ pc = "solve"
    /\ i >= 1
    /\ t = t_start
    /\ rocket.empty_mass[i - 1] > 0
    /\ U0.mass + rocket.empty_mass[i - 1] = Last(combined_Y)
    /\ Last(combined_t_eval) < t_start - 1

\* C16: without a ground impact the orbital propagate() runs exactly
\* number_of_stages + 1 phases and records that many segments: phase i < N
\* integrates from burnout_times[i - 1] (0 for i = 0) to burnout_times[i], the
\* final phase from burnout_times[N - 1] to burnout_times[N - 1] + final_coast;
\* also for a single stage.
C16_OnePhasePerStagePlusCoast ==
    flight = "orbital" =>
        LET N  == rocket.number_of_stages
            bt == rocket.burnout_times
        IN  /\ pc # "raised"
            /\ i \in 0..N
            /\ pc \in {"loop", "solve", "record"} => Len(section_indices) = i
            /\ pc \in {"solve", "record"} =>
                  /\ t_start = IF i = 0 THEN 0 ELSE bt[i - 1]
                  /\ t_end = IF i < N THEN bt[i] ELSE bt[N - 1] + rocket.final_coast
                  /\ t \in t_start..t_end
                  /\ rocket.current_stage = i
            /\ (pc = "done" /\ GroundImpactPhases = {}) =>
                  /\ i = N
                  /\ Len(section_indices) = N + 1

\* A single-stage vehicle has flown its two phases without a ground impact.
C16_Witness ==
    /\ flight = "orbital"
    /\ pc = "done"
    /\ GroundImpactPhases = {}
    /\ rocket.number_of_stages = 1
    /\ Len(section_indices) = 2

(***************************************************************************)
(* DragPerturbation.calculate and Lift.calculate                           *)
(*                                                                         *)
(* Vectors have integer components (the rotation rate of the central body  *)
(* is 1 in the model's units).  np.linalg.norm(v) is kept as its square    *)
(* NormSq(v): it is zero exactly when v is the zero vector.  A float       *)
(* quotient x / norm is NaN when both are zero (numpy warns and goes on),  *)
(* and otherwise the number x / sqrt(norm_sq), kept as that pair.          *)
(***************************************************************************)
\* NaN, and a number coef / sqrt(norm_sq).
NaN == [nan |-> TRUE, coef |-> 0, norm_sq |-> 0]

Number(coef, norm_sq) == [nan |-> FALSE, coef |-> coef, norm_sq |-> norm_sq]

central_body_angular_velocity == <<0, 0, 1>>

\* np.cross
cross(a, b) ==
    << a[2] * b[3] - a[3] * b[2], a[3] * b[1] - a[1] * b[3], a[1] * b[2] - a[2] * b[1] >>

VSub(a, b) == << a[1] - b[1], a[2] - b[2], a[3] - b[3] >>

\* np.linalg.norm(v) ** 2
NormSq(v) == v[1] * v[1] + v[2] * v[2] + v[3] * v[3]

\* x / norm in float64 arithmetic, for norm = sqrt(norm_sq) and x = 0 when norm = 0.
Quotient(x, norm_sq) ==
    IF norm_sq = 0 THEN NaN ELSE Number(x, norm_sq)

\* c * q for a number c and a quotient q: NaN stays NaN.
Scale(c, q) == IF q.nan THEN NaN ELSE [q EXCEPT !.coef = c * @]

\* DragPerturbation.calculate: k is 0.5 * density * 1e6 * drag_coefficient * area
\* / mass / 1000, so that each component is - k * vrel_magnitude ** 2 * v / vrel_magnitude.
DragPerturbation_calculate(position, rocket_velocity, wind_velocity, k) ==
    LET velocity_relative_to_atmosphere ==
            VSub(VSub(rocket_velocity, wind_velocity),
                 cross(central_body_angular_velocity, position))
        vrel_sq == NormSq(velocity_relative_to_atmosphere)
    IN  [c \in 1..3 |->
            Quotient((0 - k) * vrel_sq * velocity_relative_to_atmosphere[c], vrel_sq)]

\* Lift.calculate: k is 0.5 * density * 1e6 * Cl * area / mass / 1000.
Lift_calculate(position, rocket_velocity, k) ==
    LET velocity_relative_to_atmosphere ==
            VSub(rocket_velocity, cross(central_body_angular_velocity, rocket_velocity))
        vrel_sq == NormSq(velocity_relative_to_atmosphere)
        normal_vector  == cross(velocity_relative_to_atmosphere, position)
        lift_direction == cross(normal_vector, velocity_relative_to_atmosphere)
        lift_direction_normalized ==
            [c \in 1..3 |-> Quotient(0 - lift_direction[c], NormSq(lift_direction))]
    IN  [c \in 1..3 |-> Scale((0 - k) * vrel_sq, lift_direction_normalized[c])]

Components == {-1, 0, 1}

Velocities == { <<x, y, z>> : x \in Components, y \in Components, z \in Components }

\* On the polar axis, on the equator, and in between.
Positions3 == { <<0, 0, 1>>, <<1, 0, 0>>, <<1, 0, 1>> }

WindVelocities == { <<0, 0, 0>>, <<1, 0, 0>> }

\* k = 0: atmospheric_density returns 0 above 1000 km.
AeroCoefficients == {0, 1}

\* calculate(Y, t, rocket) has been called on a perturbation object.
InitAero ==
    /\ NoPropagation
    /\ mass_components = [called |-> FALSE]
    /\ solver = [called |-> FALSE]
    /\ vehicle = [called |-> FALSE]
    /\ density = [called |-> FALSE]
    /\ perturbation \in
          { [called |-> TRUE, done |-> FALSE, kind |-> "drag", position |-> r,
             velocity |-> v, wind_velocity |-> w, k |-> k] :
              r \in Positions3, v \in Velocities, w \in WindVelocities,
              k \in AeroCoefficients }
          \cup
          { [called |-> TRUE, done |-> FALSE, kind |-> "lift", position |-> r,
             velocity |-> v, k |-> k] :
              r \in Positions3, v \in Velocities, k \in AeroCoefficients }

DragCalculate ==
    /\ perturbation.called
    /\ ~perturbation.done
    /\ perturbation.kind = "drag"
    /\ perturbation' =
          [perturbation EXCEPT !.done = TRUE] @@
          [result |-> DragPerturbation_calculate(perturbation.position,
                         perturbation.velocity, perturbation.wind_velocity,
                         perturbation.k)]
    /\ UNCHANGED <<propagation_vars, mass_components, solver, vehicle, density>>

LiftCalculate ==
    /\ perturbation.called
    /\ ~perturbation.done
    /\ perturbation.kind = "lift"
    /\ perturbation' =
          [perturbation EXCEPT !.done = TRUE] @@
          [result |-> Lift_calculate(perturbation.position, perturbation.velocity,
                                     perturbation.k)]
    /\ UNCHANGED <<propagation_vars, mass_components, solver, vehicle, density>>

NextAero == DragCalculate \/ LiftCalculate

SpecAero == InitAero /\ [][NextAero]_vars

(***************************************************************************)
(* Properties of the perturbations (under SpecAero)                        *)
(***************************************************************************)
\* The vector that calculate() normalises is the zero vector.
DegenerateGeometry ==
    LET p == perturbation
    IN  IF p.kind = "drag"
        THEN VSub(VSub(p.velocity, p.wind_velocity),
                  cross(central_body_angular_velocity, p.position)) = <<0, 0, 0>>
        ELSE LET vrel == VSub(p.velocity, cross(central_body_angular_velocity, p.velocity))
             IN  cross(cross(vrel, p.position), vrel) = <<0, 0, 0>>

\* C20: DragPerturbation.calculate and Lift.calculate never return NaN, and they
\* return a zero acceleration when the relative velocity is zero or the vector
\* to be normalised has zero magnitude.
C20_ZeroInsteadOfNaN ==
    (perturbation.called /\ perturbation.done) =>
        /\ \A c \in 1..3 : ~perturbation.result[c].nan
        /\ DegenerateGeometry =>
              \A c \in 1..3 : perturbation.result[c].coef = 0

(***************************************************************************)
(* Properties of the orbital thrust schedule and the recorded trajectory   *)
(* (under Spec)                                                            *)
(***************************************************************************)
NonIncreasing(s) == \A k \in 1..Len(s) - 1 : s[k] >= s[k + 1]

C22_NoTimeDiscontinuity ==
    (flight = "orbital" /\ pc = "loop" /\ i >= 1) =>
        /\ t = rocket.burnout_times[i - 1]
        /\ U0 = Y

\* C23: over the evaluations of one orbital flight the thrust-direction mode
\* never goes back in the order vertical ascent, pitch-over, cruise: once
\* gravity_turn_operational is set, every evaluation (the one that set it and
\* all later ones) takes the cruise branch.
C23_ModeNeverGoesBack ==
    (flight = "orbital" /\ rocket.gravity_turn_operational) => branch = "cruise"

\* The first stage whose burnout time exceeds tt (number_of_stages if none).
RECURSIVE FirstStageBurningAfter(_, _, _)
FirstStageBurningAfter(k, tt, rk) ==
    IF k >= rk.number_of_stages THEN rk.number_of_stages
    ELSE IF tt < rk.burnout_times[k] THEN k
    ELSE FirstStageBurningAfter(k + 1, tt, rk)

\* tt lies in the coast window that follows some burnout.
InCoastWindow(tt, rk) ==
    \E k \in 0..rk.number_of_stages - 1 :
        rk.burnout_times[k] <= tt /\ tt < rk.burnout_times[k] + rk.coast_duration

AfterLastBurnout(tt, rk) == tt >= rk.burnout_times[rk.number_of_stages - 1]

\* C24: at every evaluation of OrbitalThrust.calculate in a flight (at time t
\* with the vehicle as it is then; after the last step of a phase the
\* evaluation at the phase's end time has been made), outside a coast window
\* the thrust and the mass flow are those of the first stage k whose burnout
\* time exceeds t, and they are zero only in a coast window or after the last
\* burnout.
C24_ThrustOfFirstUnburntStage ==
    (flight = "orbital" /\ pc \in {"solve", "record"}) =>
        LET scan == ThrustScan(0, t, rocket)
            k    == FirstStageBurningAfter(0, t, rocket)
        IN  /\ pc = "record" => rocket.thrust = scan.thrust
            /\ (k < rocket.number_of_stages /\ ~InCoastWindow(t, rocket)) =>
                  /\ scan.thrust = rocket.stage_thrusts[k]
                  /\ scan.mass_flow_rate = rocket.mass_flow_rates[k]
            /\ (scan.thrust = 0 \/ scan.mass_flow_rate = 0) =>
                  InCoastWindow(t, rocket) \/ AfterLastBurnout(t, rocket)

(***************************************************************************)
(* Properties of the suborbital thrust (under Spec)                        *)
(***************************************************************************)
\* C25: in a suborbital flight rocket.burnout is false up to the end of the
\* first phase and true from the start of the second on; every evaluation of
\* the first phase leaves stage 0's thrust and mass flow on the vehicle, every
\* evaluation of a later phase leaves zero, and the mass does not change
\* after the first phase.
C25_BurnoutFlag ==
    flight = "suborbital" =>
        /\ rocket.burnout <=> (i >= 2 \/ (i = 1 /\ pc # "loop"))
        /\ (pc \in {"solve", "record"} /\ t > t_starts[i + 1]) =>
              /\ rocket.thrust = IF i = 0 THEN rocket.stage_thrusts[0] ELSE 0
              /\ rocket.mass_flow_rate = IF i = 0 THEN rocket.mass_flow_rates[0] ELSE 0
              /\ burned[i] = IF i = 0 THEN (t - t_starts[1]) * rocket.mass_flow_rates[0]
                             ELSE 0
        /\ \A k \in 1..Len(events) - 1 : burned[k] = 0
        /\ (i >= 1 /\ pc # "loop") => Y.mass = U0.mass

\* C25, witness: a suborbital flight has returned after its four phases; the
\* stage burnt propellant in the first phase, and the vehicle is left burnt
\* out with zero thrust.
C25_Witness ==
    /\ flight = "suborbital"
    /\ pc = "done"
    /\ i = Len(events) - 1
    /\ burned[0] > 0
    /\ rocket.burnout
    /\ rocket.thrust = 0
    /\ rocket.mass_flow_rate = 0
    /\ Len(section_indices) = Len(events)

(***************************************************************************)
(* Properties of section_indices and of the ground-impact event            *)
(* (under Spec)                                                            *)
(***************************************************************************)
\* C26: after propagate() (orbital and suborbital) section_indices is a
\* contiguous partition of the recorded samples: the first start is 0, each
\* segment starts where the previous one ends, and the last end is the number
\* of rows of Y, also when a phase was ended by a terminal event.
C26_SectionsPartitionSamples ==
    pc = "done" =>
        /\ section_indices # <<>>
        /\ section_indices[1][1] = 0
        /\ \A k \in 1..Len(section_indices) - 1 :
              section_indices[k + 1][1] = section_indices[k][2]
        /\ \A k \in 1..Len(section_indices) :
              section_indices[k][1] <= section_indices[k][2]
        /\ Last(section_indices)[2] = Len(combined_Y)

\* C27: the ground-impact event ends a phase exactly on a step over which
\* |r| - 6371 km goes from >= 0 to <= 0: a step that rises from the pad
\* (altitude 0) does not fire it, a first step that does not rise from the pad
\* fires it at once, and it is never logged for any other step.
C27_GroundImpactOnDescent ==
    [][ (pc = "solve" /\ pc' # "raised") =>
          LET falls == Y.alt >= 0 /\ Y'.alt <= 0
              fired == /\ event_log' # event_log
                       /\ Last(event_log') = <<i, "ground_impact">>
          IN  /\ falls => (sol'.status = 1 /\ pc' = "record")
              /\ fired => falls
              /\ (flight = "orbital" \/ i = 0) => (fired <=> falls)
              /\ (flight = "orbital" \/ i = 0) => (sol'.status = 1 <=> falls)
              /\ (Y.alt = 0 /\ Y'.alt > 0) => ~fired
              /\ (i = 0 /\ t = 0 /\ Y'.alt <= 0) => (fired /\ t' = 1) ]_vars

\* C27, witness: the vehicle rose from the pad without firing the event (the
\* first step of phase 0 went on) and a later step back to the ground ended
\* the phase.
C27_Witness ==
    /\ flight = "orbital"
    /\ i = 0
    /\ pc = "record"
    /\ t >= 2
    /\ Y.alt = 0
    /\ sol.status = 1
    /\ event_log = << <<0, "ground_impact">> >>

(***************************************************************************)
(* atmospheric_density                                                     *)
(*                                                                         *)
(* Altitudes are whole kilometres.  A table density is kept as the pair    *)
(* (m, e) of the decimal m * 10^e, a scale height in metres; the value     *)
(* returned is kept as the table entries the interpolation was made from.  *)
(***************************************************************************)
\* Reference altitudes (km).
h ==
    << 0, 25, 30, 40, 50, 60, 70,
       80, 90, 100, 110, 120, 130, 140,
       150, 180, 200, 250, 300, 350, 400,
       450, 500, 600, 700, 800, 900, 1000 >>

Decimal(m, e) == [m |-> m, e |-> e]

\* Corresponding densities (kg/m^3).
reference_density ==
    << Decimal(1225, -3), Decimal(4008, -5), Decimal(1841, -5), Decimal(3996, -6),
       Decimal(1027, -6), Decimal(3097, -7), Decimal(8283, -8),
       Decimal(1846, -8), Decimal(3416, -9), Decimal(5606, -10), Decimal(9708, -11),
       Decimal(2222, -11), Decimal(8152, -12), Decimal(3831, -12),
       Decimal(2076, -12), Decimal(5194, -13), Decimal(2541, -13), Decimal(6073, -14),
       Decimal(1916, -14), Decimal(7014, -15), Decimal(2803, -15),
       Decimal(1184, -15), Decimal(5215, -16), Decimal(1137, -16), Decimal(3070, -17),
       Decimal(1136, -17), Decimal(5759, -18), Decimal(3561, -18) >>

\* Scale heights (m).
H ==
    << 7310, 6427, 6546, 7360, 8342, 7583, 6661,
       5927, 5533, 5703, 6782, 9973, 13243, 16322,
       21652, 27974, 34934, 43342, 49755, 54513, 58019,
       60980, 65654, 76377, 100587, 147203, 208020 >>

\* The highest altitude of the table (km).
max_altitude == 1000

\* a[k] of a Python array: k counts from 0, a negative k from the end.
PyIndex(a, k) == IF k >= 0 THEN a[k + 1] ELSE a[Len(a) + k + 1]

\* np.searchsorted(a, v): the number of entries of the sorted a below v.
searchsorted(a, v) == Cardinality({ k \in 1..Len(a) : a[k] < v })

\* The interpolation interval, with its edge case.
IntervalIndex(altitude) ==
    IF altitude = max_altitude THEN 26
    ELSE searchsorted(h, altitude) - 1

\* atmospheric_density(altitude): 0 outside the table, otherwise
\* reference_density[i] * exp(-(altitude - h[i]) / H[i]).
atmospheric_density(altitude) ==
    IF altitude > max_altitude \/ altitude < 0
    THEN [zero |-> TRUE, index |-> 0, reference_density |-> Decimal(0, 0),
          h |-> 0, H |-> 0]
    ELSE LET idx == IntervalIndex(altitude)
         IN  [zero              |-> FALSE,
              index             |-> idx,
              reference_density |-> PyIndex(reference_density, idx),
              h                 |-> PyIndex(h, idx),
              H                 |-> PyIndex(H, idx)]

\* The altitudes looked at: every kilometre of the table and a few outside.
Altitudes == (-3)..(max_altitude + 3)

InitAtmosphere ==
    /\ NoPropagation
    /\ mass_components = [called |-> FALSE]
    /\ solver = [called |-> FALSE]
    /\ vehicle = [called |-> FALSE]
    /\ perturbation = [called |-> FALSE]
    /\ density \in { [called |-> TRUE, done |-> FALSE, altitude |-> a] : a \in Altitudes }

AtmosphericDensity ==
    /\ density.called
    /\ ~density.done
    /\ density' = [density EXCEPT !.done = TRUE]
                      @@ [result |-> atmospheric_density(density.altitude)]
    /\ UNCHANGED <<propagation_vars, mass_components, solver, vehicle, perturbation>>

NextAtmosphere == AtmosphericDensity

SpecAtmosphere == InitAtmosphere /\ [][NextAtmosphere]_vars

\* C28: atmospheric_density returns 0 for an altitude below 0 or above 1000 km;
\* for every altitude in [0, 1000] it interpolates from the table interval that
\* holds the altitude, i.e. the index i it uses has 0 <= i <= 26 and
\* h[i] <= altitude <= h[i+1], with that interval's density and scale height;
\* altitude 0 uses the sea-level entry 1.225 kg/m^3.
C28_DensityFromEnclosingInterval ==
    (density.called /\ density.done) =>
        LET a == density.altitude
            r == density.result
        IN  /\ (a < 0 \/ a > 1000) => r.zero
            /\ (0 <= a /\ a <= 1000) =>
                  /\ ~r.zero
                  /\ r.index \in 0..26
                  /\ h[r.index + 1] <= a
                  /\ a <= h[r.index + 2]
                  /\ r.h = h[r.index + 1]
                  /\ r.reference_density = reference_density[r.index + 1]
                  /\ r.H = H[r.index + 1]
            /\ a = 0 => r.reference_density = Decimal(1225, -3)

(***************************************************************************)
(* Properties of bisection_solver (under SpecMass)                         *)
(***************************************************************************)
\* f(low) * f(high) < 0 for the solver's interval.
Bracketed(s) ==
    Sign(optimum_staging_function(mass_components, s.low))
      * Sign(optimum_staging_function(mass_components, s.high)) < 0

\* C29: bisection_solver ends after at most max_iter passes of its loop: every
\* pass adds one to iter, iter never exceeds max_iter, and at iter = max_iter
\* the next step is the return of mid; and when the interval brackets a sign
\* change of f, a pass halves it, keeps one of its ends and keeps a sign
\* change of f inside it.
C29_BisectionBoundedAndBracketing ==
    [][ (solver.called /\ solver.pc = "while") =>
          /\ solver.iter <= max_iter
          /\ solver'.iter <= max_iter
          /\ solver'.pc \in {"while", "returned"}
          /\ solver'.pc = "while" => solver'.iter = solver.iter + 1
          /\ solver'.pc = "returned" =>
                (solver'.iter = solver.iter /\ solver'.mid = solver.mid)
          /\ solver.iter = max_iter => solver'.pc = "returned"
          /\ (solver'.pc = "while" /\ Bracketed(solver)) =>
                /\ RSub(solver'.high, solver'.low)
                      = RDiv(RSub(solver.high, solver.low), RInt(2))
                /\ \/ (solver'.low = solver.low /\ solver'.high = solver.mid)
                   \/ (solver'.low = solver.mid /\ solver'.high = solver.high)
                /\ Bracketed(solver') ]_vars

\* C29, witness: a call whose interval brackets a sign change has returned a
\* root within the tolerance after two or more passes.
C29_Witness ==
    /\ Returned
    /\ solver.iter >= 2
    /\ Bracketed(solver)
    /\ ~ExceedsTolerance(optimum_staging_function(mass_components, solver.mid))

(***************************************************************************)
(* Properties of the stage counter (under Spec)                            *)
(***************************************************************************)
\* The scan of the burnout-time table at time tt ends in the branch that
\* indexes stage_thrusts and mass_flow_rates.
RECURSIVE IndexedBranchReached(_, _, _)
IndexedBranchReached(k, tt, rk) ==
    IF k >= rk.number_of_stages THEN FALSE
    ELSE IF tt < rk.burnout_times[k] THEN TRUE
    ELSE IF tt < rk.burnout_times[k] + rk.coast_duration THEN FALSE
    ELSE IndexedBranchReached(k + 1, tt, rk)

\* C30: during the first propagate() of an orbital Propagator,
\* rocket.current_stage is the phase index i throughout phase i (i - 1 before
\* the phase has started); whenever the thrust lookup reaches the indexed
\* branch, 0 <= current_stage < number_of_stages; in the final coast phase
\* (current_stage = number_of_stages) it never reaches it, the thrust is zero,
\* and no evaluation raises.
C30_StageIndexInRange ==
    flight = "orbital" =>
        LET N == rocket.number_of_stages
        IN  /\ pc # "raised"
            /\ pc = "loop" => rocket.current_stage = i - 1
            /\ pc \in {"solve", "record"} =>
                  /\ rocket.current_stage = i
                  /\ IndexedBranchReached(0, t, rocket) =>
                        (0 <= rocket.current_stage /\ rocket.current_stage < N)
                  /\ i = N =>
                        /\ ~IndexedBranchReached(0, t, rocket)
                        /\ ThrustScan(0, t, rocket).thrust = 0
                        /\ t > t_start => rocket.thrust = 0
                        /\ burned[N] = 0

\* C30, witness: the final coast phase of a flight of two or more stages has
\* been integrated to its end with current_stage = number_of_stages, after
\* every stage has burnt propellant.
C30_Witness ==
    /\ flight = "orbital"
    /\ pc = "record"
    /\ rocket.number_of_stages >= 2
    /\ i = rocket.number_of_stages
    /\ rocket.current_stage = rocket.number_of_stages
    /\ t = t_end
    /\ sol.status = 0
    /\ rocket.thrust = 0
    /\ \A k \in 0..rocket.number_of_stages - 1 : burned[k] > 0

====
